---- MODULE Spec2Model ----
(***************************************************************************)
(* The #[op] attribute macro of deno_ops (ops/lib.rs): the text-based      *)
(* signature classifiers, the code the macro generates for the synchronous *)
(* and the asynchronous v8 function bodies, and the execution of that      *)
(* generated code against a host call (dynamic arguments, return slot,     *)
(* type errors, op tracker, async op queue and completion triples).        *)
(*                                                                         *)
(* Token text.  tokens(x) renders a syntax node as its tokens separated by *)
(* single blanks.  A text is modelled as a sequence of atoms: every token  *)
(* is one atom, except that an identifier that merely ends in "Result" is  *)
(* two atoms, and the blank between two tokens is the atom " ".  The       *)
(* string patterns of lib.rs never split an atom, so starts_with,          *)
(* contains, find and the regular expressions are exact on atoms.          *)
(***************************************************************************)
EXTENDS Integers, Sequences, FiniteSets, TLC

VARIABLES attr, f, margs, v8_body, ctx, op_state, host_calls, calls,
          completions

vars ==
  <<attr, f, margs, v8_body, ctx, op_state, host_calls, calls, completions>>

----------------------------------------------------------------------------
(* Bounds *)

\* the most parameters a function declares
MaxParams == 2

\* the most polls of one task that return Pending
MaxSuspend == 1

\* the longest parameter list of a function the macro alone is applied to
MaxMacroParams == 3

\* the most tokens in the attribute of the annotation
MaxAttr == 3

----------------------------------------------------------------------------
(* Strings as sequences of atoms *)

Lex(tok) ==
  IF tok = "MyResult" THEN <<"My", "Result">> ELSE <<tok>>

RECURSIVE Text(_)
Text(toks) ==
  IF toks = <<>> THEN <<>>
  ELSE IF Len(toks) = 1 THEN Lex(toks[1])
  ELSE Lex(toks[1]) \o <<" ">> \o Text(Tail(toks))

starts_with(s, p) ==
  /\ Len(p) <= Len(s)
  /\ SubSeq(s, 1, Len(p)) = p

ends_with(s, p) ==
  /\ Len(p) <= Len(s)
  /\ SubSeq(s, Len(s) - Len(p) + 1, Len(s)) = p

MatchAt(s, p, i) ==
  /\ i + Len(p) - 1 <= Len(s)
  /\ SubSeq(s, i, i + Len(p) - 1) = p

\* str::find: the first position at which p occurs in s, 0 for None
find(s, p) ==
  IF \E i \in 1..Len(s) : MatchAt(s, p, i)
  THEN CHOOSE i \in 1..Len(s) :
         /\ MatchAt(s, p, i)
         /\ \A j \in 1..(i - 1) : ~MatchAt(s, p, j)
  ELSE 0

contains(s, p) == p = <<>> \/ find(s, p) # 0

RECURSIVE trim_start_matches(_, _)
trim_start_matches(s, p) ==
  IF p # <<>> /\ starts_with(s, p)
  THEN trim_start_matches(SubSeq(s, Len(p) + 1, Len(s)), p)
  ELSE s

\* tokens(x) of a return type: nothing for the default return type, else
\* the arrow and the type
tokens(x) == Text(x)

\* tokens(arg) of a typed function argument: pattern, colon, type
arg_tokens(arg) == Text(<<arg.pat, ":">> \o arg.ty)

----------------------------------------------------------------------------
(* Signature classifiers (lib.rs 394-443) *)

is_void(ty) == tokens(ty) = <<>>

ArrowBlank == <<"->", " ">>

ResultOpen == Text(<<"Result", "<">>)

PathResultOpen == Text(<<"::", "Result", "<">>)

UnitResultOpen == Text(<<"Result", "<", "()">>)

is_result(ty) ==
  LET t == tokens(ty)
      idx == find(t, PathResultOpen)
  IN  IF starts_with(trim_start_matches(t, ArrowBlank), ResultOpen)
      THEN TRUE
      ELSE IF idx # 0
           THEN ~contains(SubSeq(t, 1, idx - 1), <<"<">>)
           ELSE FALSE

is_unit_result(ty) ==
  is_result(ty) /\ contains(tokens(ty), UnitResultOpen)

\* the texts the regular expression of is_mut_ref_opstate ends a match with
RE_mut_ref_opstate ==
  { Text(<<":", "&", "mut", "OpState">>),
    Text(<<":", "&", "mut", "deno_core", "::", "OpState">>) }

is_mut_ref_opstate(arg) ==
  LET t == arg_tokens(arg)
  IN  \E p \in RE_mut_ref_opstate : ends_with(t, p)

RE_rc_refcell_opstate ==
  { Text(<<":", "Rc", "<", "RefCell", "<", "OpState", ">", ">">>),
    Text(<<":", "Rc", "<", "RefCell", "<", "deno_core", "::", "OpState",
           ">", ">">>) }

is_rc_refcell_opstate(arg) ==
  LET t == arg_tokens(arg)
  IN  \E p \in RE_rc_refcell_opstate : ends_with(t, p)

\* the lifetime names '\w+ the model knows
Lifetimes == {"'a", "'scope"}

RE_handle_scope ==
  { Text(<<":", "&", "mut">> \o c \o <<"v8", "::", "HandleScope">> \o l) :
      c \in {<<>>, <<"deno_core", "::">>},
      l \in {<<>>} \cup {<<"<", n, ">">> : n \in Lifetimes} }

is_handle_scope(arg) ==
  LET t == arg_tokens(arg)
  IN  \E p \in RE_handle_scope : ends_with(t, p)

FutureOpen == Text(<<"impl", "Future", "<", "Output", "=">>)

is_future(ty) == contains(tokens(ty), FutureOpen)

----------------------------------------------------------------------------
(* The annotation's options (lib.rs 43-70).  The attribute is a sequence of *)
(* tokens: identifiers, commas, and the literal 1 for a token that is       *)
(* neither.                                                                  *)

Unparsed == [k |-> "unparsed"]

IsIdent(tok) == tok \notin {",", "1"}

\* Punctuated::<Ident, Token![,]>::parse_terminated: identifiers separated by
\* commas, with or without a trailing comma
RECURSIVE parse_terminated(_, _)
parse_terminated(input, want_value) ==
  IF input = <<>> THEN [ok |-> TRUE, idents |-> <<>>]
  ELSE IF want_value
  THEN IF IsIdent(Head(input))
       THEN LET r == parse_terminated(Tail(input), FALSE)
            IN  [ok |-> r.ok, idents |-> <<Head(input)>> \o r.idents]
       ELSE [ok |-> FALSE, idents |-> <<>>]
  ELSE IF Head(input) = ","
  THEN parse_terminated(Tail(input), TRUE)
  ELSE [ok |-> FALSE, idents |-> <<>>]

\* MacroArgs::parse reading the options off the first identifier only
MacroArgs_parse_first_only(input) ==
  LET p == parse_terminated(input, TRUE)
      names == p.idents
  IN  IF ~p.ok
      THEN [ok |-> FALSE, v |-> Unparsed, err |-> "syn::Error"]
      ELSE IF \E j \in 1..Len(names) : names[j] \notin {"unstable", "v8"}
      THEN [ok |-> FALSE, v |-> Unparsed,
            err |-> "Ops expect #[op] or #[op(unstable)]"]
      ELSE [ok |-> TRUE,
            v |-> [is_unstable |-> names # <<>> /\ names[1] = "unstable",
                   is_v8 |-> names # <<>> /\ names[1] = "v8"],
            err |-> ""]

MacroArgs_parse(input) ==
  LET p == parse_terminated(input, TRUE)
      names == p.idents
  IN  IF ~p.ok
      THEN [ok |-> FALSE, v |-> Unparsed, err |-> "syn::Error"]
      ELSE IF \E j \in 1..Len(names) : names[j] \notin {"unstable", "v8"}
      THEN [ok |-> FALSE, v |-> Unparsed,
            err |-> "Ops expect #[op] or #[op(unstable)]"]
      ELSE [ok |-> TRUE,
            v |-> [is_unstable |->
                     \E j \in 1..Len(names) : names[j] = "unstable",
                   is_v8 |-> \E j \in 1..Len(names) : names[j] = "v8"],
            err |-> ""]

----------------------------------------------------------------------------
(* Special arguments (lib.rs 245-261).  An Option<TokenStream> is the      *)
(* expression text, or "None".                                             *)

scope_arg(arg) == IF is_handle_scope(arg) THEN "scope" ELSE "None"

opstate_arg(arg) ==
  IF is_rc_refcell_opstate(arg) THEN "ctx.state.clone()"
  ELSE IF is_mut_ref_opstate(arg) THEN "&mut ctx.state.borrow_mut()"
  ELSE "None"

\* special_arg trying scope_arg whatever the v8 option
special_arg_scope_always(is_v8, a) ==
  IF scope_arg(a) # "None" THEN scope_arg(a) ELSE opstate_arg(a)

\* the closure handed to map_while in both code generators
special_arg(is_v8, a) ==
  LET first == IF is_v8 THEN scope_arg(a) ELSE "None"
  IN  IF first # "None" THEN first ELSE opstate_arg(a)

\* special_args stopping after the first special parameter
special_args_first_only(is_v8, inputs) ==
  IF inputs = <<>> THEN <<>>
  ELSE IF special_arg(is_v8, Head(inputs)) = "None" THEN <<>>
  ELSE <<special_arg(is_v8, Head(inputs))>>

RECURSIVE special_args(_, _)
special_args(is_v8, inputs) ==
  IF inputs = <<>> THEN <<>>
  ELSE IF special_arg(is_v8, Head(inputs)) = "None" THEN <<>>
  ELSE <<special_arg(is_v8, Head(inputs))>>
         \o special_args(is_v8, Tail(inputs))

----------------------------------------------------------------------------
(* Argument marshalling code (lib.rs 303-352).  A generated statement is a *)
(* record; the identifier arg_i is the number i.                           *)

\* codegen_arg without the fast path of lines 338-340
codegen_arg_no_fast_path(arg, name, idx) ==
  [stmt |-> "from_v8", ident |-> name, idx |-> idx]

codegen_arg(arg, name, idx) ==
  IF arg.pat = "_"
  THEN [stmt |-> "let_unit", ident |-> name]
  ELSE [stmt |-> "from_v8", ident |-> name, idx |-> idx]

\* codegen_args numbering the arguments before the skip of line 309
codegen_args_no_skip(fn, rust_i0, v8_i0) ==
  LET inputs == SubSeq(fn.inputs, rust_i0 + 1, Len(fn.inputs))
  IN  [decls |-> [j \in 1..Len(inputs) |->
                    codegen_arg(inputs[j], j - 1, v8_i0 + rust_i0 + (j - 1))],
       ident_seq |-> [j \in 1..Len(inputs) |-> j - 1]]

codegen_args(fn, rust_i0, v8_i0) ==
  LET inputs == SubSeq(fn.inputs, rust_i0 + 1, Len(fn.inputs))
  IN  [decls |-> [j \in 1..Len(inputs) |->
                    codegen_arg(inputs[j], j - 1, v8_i0 + (j - 1))],
       ident_seq |-> [j \in 1..Len(inputs) |-> j - 1]]

----------------------------------------------------------------------------
(* Return code of the synchronous body (lib.rs 354-392) *)

\* codegen_sync_ret without the unit-result optimisation of lines 363-364
codegen_sync_ret_no_unit_opt(output) ==
  IF is_void(output) THEN [kind |-> "empty", ok_block |-> "empty"]
  ELSE IF ~is_result(output)
       THEN [kind |-> "ok_block", ok_block |-> "to_v8"]
       ELSE [kind |-> "match", ok_block |-> "to_v8"]

\* codegen_sync_ret without the early return of lines 358-360
codegen_sync_ret_no_void(output) ==
  LET ok_block == IF is_unit_result(output) THEN "empty" ELSE "to_v8"
  IN  IF ~is_result(output)
      THEN [kind |-> "ok_block", ok_block |-> ok_block]
      ELSE [kind |-> "match", ok_block |-> ok_block]

codegen_sync_ret(output) ==
  LET ok_block == IF is_unit_result(output) THEN "empty" ELSE "to_v8"
  IN  IF is_void(output) THEN [kind |-> "empty", ok_block |-> "empty"]
      ELSE IF ~is_result(output)
           THEN [kind |-> "ok_block", ok_block |-> ok_block]
           ELSE [kind |-> "match", ok_block |-> ok_block]

----------------------------------------------------------------------------
(* The generated bodies (lib.rs 154-243, 264-301) *)

codegen_v8_sync(fn, m) ==
  LET head == special_args(m.is_v8, fn.inputs)
      rust_i0 == Len(head)
      ca == codegen_args(fn, rust_i0, 0)
  IN  [arg_decls |-> ca.decls,
       args_head |-> head,
       args_tail |-> ca.ident_seq,
       ret |-> codegen_sync_ret(fn.output)]

\* codegen_v8_async invoking the function before queue_async_op also when
\* it is declared async
codegen_v8_async_eager_call(fn, m, asyncness) ==
  LET head == special_args(m.is_v8, fn.inputs)
      rust_i0 == Len(head)
      ca == codegen_args(fn, rust_i0, 1)
      res == is_result(fn.output)
  IN  [arg_decls |-> ca.decls,
       args_head |-> head,
       args_tail |-> ca.ident_seq,
       pre_result |-> "let result_fut = call",
       result_fut |-> IF res /\ ~asyncness THEN "result_fut"
                      ELSE "result_fut.await",
       result_wrapper |-> IF res
                          THEN (IF ~asyncness THEN "match fut.await"
                                ELSE "empty")
                          ELSE "Ok(result)"]

codegen_v8_async(fn, m, asyncness) ==
  LET head == special_args(m.is_v8, fn.inputs)
      rust_i0 == Len(head)
      ca == codegen_args(fn, rust_i0, 1)
      res == is_result(fn.output)
  IN  [arg_decls |-> ca.decls,
       args_head |-> head,
       args_tail |-> ca.ident_seq,
       pre_result |-> IF asyncness THEN "empty" ELSE "let result_fut = call",
       result_fut |-> IF asyncness THEN "call.await"
                      ELSE IF res THEN "result_fut" ELSE "result_fut.await",
       result_wrapper |-> IF res
                          THEN (IF ~asyncness THEN "match fut.await"
                                ELSE "empty")
                          ELSE "Ok(result)"]

\* op (lib.rs 98-104): the async verdict and the body it selects
op_is_async(fn) == fn.asyncness \/ is_future(fn.output)

\* op (lib.rs 116-136): name() and the OpDecl that decl() returns
op_decl(fn, m) ==
  [name |-> fn.ident,
   enabled |-> TRUE,
   is_async |-> op_is_async(fn),
   is_unstable |-> m.is_unstable,
   is_v8 |-> m.is_v8]

\* the generated item: the body of v8_func and the declaration
op_v8_body(fn, m) ==
  IF op_is_async(fn)
  THEN [is_async |-> TRUE, code |-> codegen_v8_async(fn, m, fn.asyncness),
        decl |-> op_decl(fn, m)]
  ELSE [is_async |-> FALSE, code |-> codegen_v8_sync(fn, m),
        decl |-> op_decl(fn, m)]

----------------------------------------------------------------------------
(* Values.  A dynamic (v8) value is undefined or an integer; the host's    *)
(* args.get yields undefined for an argument that was not passed.  A       *)
(* v8::Integer is an int32 or a uint32: the integer n of the int32 range   *)
(* is JsInt(n), and the uint32 2^31 + m above that range is JsUint(m).     *)

Undefined == [k |-> "undefined", n |-> 0, big |-> FALSE]

JsInt(n) == [k |-> "int", n |-> n, big |-> FALSE]

JsUint(m) == [k |-> "int", n |-> m, big |-> TRUE]

Unit == [k |-> "unit", n |-> 0, big |-> FALSE]

Unset == [k |-> "unset"]

args_get(args, i) == IF i + 1 <= Len(args) THEN args[i + 1] ELSE Undefined

\* serde_v8::from_v8 into the parameter's native type
from_v8(v) ==
  IF v.k = "int"
  THEN [ok |-> TRUE, v |-> [k |-> "u32", n |-> v.n, big |-> v.big]]
  ELSE [ok |-> FALSE, v |-> Unit]

\* serde_v8::to_v8 of a native value
to_v8(x) == [k |-> "v8", of |-> x]

\* l.value() as PromiseId: an i64 cast to i32, which keeps an int32 and
\* takes 2^31 + m to m - 2^31
as_PromiseId(v) == IF v.big THEN (v.n - 2147483647) - 1 ELSE v.n

\* v8::Local::<v8::Integer>::try_from(promise_id).map(|l| l.value() as _)
promise_id_try_from(v) ==
  IF v.k = "int"
  THEN [ok |-> TRUE, v |-> as_PromiseId(v)]
  ELSE [ok |-> FALSE, v |-> 0]

\* OpError::new(get_error_class_fn, err)
OpError_new(get_class, err) == [class_name |-> get_class, message |-> err]

\* _ops::to_op_result(get_class, result)
to_op_result(get_class, result) ==
  IF result.tag = "Err"
  THEN [tag |-> "Err", val |-> OpError_new(get_class, result.val)]
  ELSE [tag |-> "Ok", val |-> result.val]

\* Self::call: the original function applied to its bound arguments.  Its
\* outcome nat is Plain (a plain value or a future), Ok or Err; the value is
\* the application itself, so it tells which arguments were bound where.
call(bound, nat) ==
  [tag |-> nat, val |-> [fn |-> "call", tag |-> nat, of |-> bound]]

\* an event of a call's trace
Ev(e, n) == [ev |-> e, n |-> n]

----------------------------------------------------------------------------
(* Execution of the generated argument declarations (lib.rs 339, 343-350) *)

\* exec_arg without the return of line 348: the error is raised and the
\* declarations go on
exec_arg_no_return(d, args, st) ==
  IF d.stmt = "let_unit"
  THEN [st EXCEPT !.env = (d.ident :> Unit) @@ @]
  ELSE LET r == from_v8(args_get(args, d.idx))
           read == <<Ev("args.get", d.idx), Ev("from_v8", d.idx)>>
       IN  IF r.ok
           THEN [st EXCEPT !.env = (d.ident :> r.v) @@ @,
                           !.trace = @ \o read]
           ELSE [st EXCEPT !.env = (d.ident :> Unit) @@ @,
                           !.trace = @ \o read \o
                             <<Ev("throw: Error parsing args at position",
                                  d.idx)>>]

exec_arg(d, args, st) ==
  IF d.stmt = "let_unit"
  THEN [st EXCEPT !.env = (d.ident :> Unit) @@ @]
  ELSE LET r == from_v8(args_get(args, d.idx))
           read == <<Ev("args.get", d.idx), Ev("from_v8", d.idx)>>
       IN  IF r.ok
           THEN [st EXCEPT !.env = (d.ident :> r.v) @@ @,
                           !.trace = @ \o read]
           ELSE [st EXCEPT !.ok = FALSE,
                           !.trace = @ \o read \o
                             <<Ev("throw: Error parsing args at position",
                                  d.idx)>>]

RECURSIVE exec_decls(_, _, _)
exec_decls(decls, args, st) ==
  IF decls = <<>> \/ ~st.ok THEN st
  ELSE exec_decls(Tail(decls), args, exec_arg(Head(decls), args, st))

\* evaluation of one special argument expression.  borrow_mut on the
\* RefCell of the shared state panics when a borrow is already held
\* (held), as RefCell checks at run time.
bind_special(expr, held) ==
  IF expr = "scope"
  THEN [val |-> [k |-> "scope", n |-> 0], trace |-> <<Ev("arg: scope", 0)>>,
        drops |-> <<>>, panic |-> FALSE]
  ELSE IF expr = "ctx.state.clone()"
  THEN [val |-> [k |-> "Rc<RefCell<OpState>>", n |-> 0],
        trace |-> <<Ev("arg: ctx.state.clone()", 0)>>, drops |-> <<>>,
        panic |-> FALSE]
  ELSE IF held
  THEN [val |-> Unit, trace |-> <<Ev("panic: already borrowed", 0)>>,
        drops |-> <<>>, panic |-> TRUE]
  ELSE [val |-> [k |-> "&mut OpState", n |-> 0],
        trace |-> <<Ev("arg: &mut ctx.state.borrow_mut()", 0)>>,
        drops |-> <<Ev("drop borrow_mut", 0)>>, panic |-> FALSE]

\* the special argument expressions, evaluated left to right; an expression
\* that panics ends the evaluation.  eval_rest continues after the binding
\* b of the first expression, eval_join puts b before the bindings r of the
\* others; the borrows are dropped in the reverse order of their creation.
RECURSIVE eval_head(_, _)
eval_join(b, r) ==
  [vals |-> <<b.val>> \o r.vals, trace |-> b.trace \o r.trace,
   drops |-> r.drops \o b.drops, panic |-> r.panic]

eval_rest(b, rest, held) ==
  IF b.panic
  THEN [vals |-> <<>>, trace |-> b.trace, drops |-> <<>>, panic |-> TRUE]
  ELSE eval_join(b, eval_head(rest, held \/ b.drops # <<>>))

eval_head(head, held) ==
  IF head = <<>>
  THEN [vals |-> <<>>, trace |-> <<>>, drops |-> <<>>, panic |-> FALSE]
  ELSE eval_rest(bind_special(Head(head), held), Tail(head), held)

\* Self::call(#args_head #args_tail) with the special arguments h: the
\* bound values and the events up to the invocation; the temporaries are
\* dropped when the statement ends, or when a panic unwinds it
call_statement(h, code, env) ==
  IF h.panic
  THEN [bound |-> <<>>, trace |-> h.trace, drops |-> h.drops, panic |-> TRUE]
  ELSE [bound |-> h.vals \o [j \in 1..Len(code.args_tail) |->
                               env[code.args_tail[j]]],
        trace |-> h.trace \o <<Ev("call", 0)>>,
        drops |-> h.drops, panic |-> FALSE]

exec_call(code, env) ==
  call_statement(eval_head(code.args_head, FALSE), code, env)

----------------------------------------------------------------------------
(* Execution of the synchronous body (lib.rs 285-300, 358-391) *)

exec_ok_block(ok_block, value, enc) ==
  IF ok_block = "empty" THEN [trace |-> <<>>, rv |-> Unset]
  ELSE IF enc
  THEN [trace |-> <<Ev("to_v8", 0), Ev("rv.set", 0)>>, rv |-> to_v8(value)]
  ELSE [trace |-> <<Ev("to_v8", 0),
                    Ev("throw: Error serializing return", -1)>>,
        rv |-> Unset]

\* exec_sync_ret raising a type error for an Err result
exec_sync_ret_err_throws(ret, result, get_class, enc) ==
  IF ret.kind = "empty" THEN [trace |-> <<>>, rv |-> Unset]
  ELSE IF ret.kind = "ok_block"
  THEN exec_ok_block(ret.ok_block, result.val, enc)
  ELSE IF result.tag = "Ok"
  THEN exec_ok_block(ret.ok_block, result.val, enc)
  ELSE [trace |-> <<Ev("throw: Error serializing return", -1)>>,
        rv |-> Unset]

exec_sync_ret(ret, result, get_class, enc) ==
  IF ret.kind = "empty" THEN [trace |-> <<>>, rv |-> Unset]
  ELSE IF ret.kind = "ok_block"
  THEN exec_ok_block(ret.ok_block, result.val, enc)
  ELSE IF result.tag = "Ok"
  THEN exec_ok_block(ret.ok_block, result.val, enc)
  ELSE [trace |-> <<Ev("get_error_class_fn", 0), Ev("OpError::new", 0),
                    Ev("to_v8", 0), Ev("rv.set", 0)>>,
        rv |-> to_v8(OpError_new(get_class, result.val))]

NoTask == [promise_id |-> 0]

exec_v8_sync(code, c, state, args, nat, enc) ==
  LET st == exec_decls(code.arg_decls, args,
                       [ok |-> TRUE, env |-> <<>>, trace |-> <<>>])
      cl == exec_call(code, st.env)
      result == call(cl.bound, nat)
      ret == exec_sync_ret(code.ret, result, state.get_error_class_fn, enc)
  IN  IF ~st.ok
      THEN [kind |-> "sync", args |-> args, trace |-> st.trace,
            invoked |-> <<>>, result |-> Unset, rv |-> Unset,
            stage |-> "aborted",
            suspensions |-> 0, task |-> NoTask]
      ELSE IF cl.panic
      THEN [kind |-> "sync", args |-> args,
            trace |-> st.trace \o cl.trace \o cl.drops,
            invoked |-> <<>>, result |-> Unset, rv |-> Unset,
            stage |-> "panicked",
            suspensions |-> 0, task |-> NoTask]
      ELSE [kind |-> "sync", args |-> args,
            trace |-> st.trace \o cl.trace \o cl.drops
                      \o <<Ev("borrow", 0), Ev("track_sync", c.id)>>
                      \o ret.trace \o <<Ev("drop borrow", 0)>>,
            invoked |-> <<cl.bound>>, result |-> result, rv |-> ret.rv,
            stage |-> "returned",
            suspensions |-> 0, task |-> NoTask]

----------------------------------------------------------------------------
(* Execution of the asynchronous body: the part that runs on the caller    *)
(* (lib.rs 204-237) and the async block handed to queue_async_op (237-241) *)

\* exec_promise_id without the return of line 221
exec_promise_id_no_return(args) ==
  LET p == promise_id_try_from(args_get(args, 0))
      read == <<Ev("args.get", 0), Ev("Integer::try_from", 0)>>
  IN  IF p.ok
      THEN [ok |-> TRUE, v |-> p.v, trace |-> read]
      ELSE [ok |-> TRUE, v |-> 0,
            trace |-> read \o <<Ev("throw: invalid promise id", -1)>>]

\* lines 212-223: the promise id, or the type error and the return
exec_promise_id(args) ==
  LET p == promise_id_try_from(args_get(args, 0))
      read == <<Ev("args.get", 0), Ev("Integer::try_from", 0)>>
  IN  IF p.ok
      THEN [ok |-> TRUE, v |-> p.v, trace |-> read]
      ELSE [ok |-> FALSE, v |-> 0,
            trace |-> read \o <<Ev("throw: invalid promise id", -1)>>]

\* exec_v8_async recording the asynchronous call before the arguments are
\* decoded
exec_v8_async_track_early(code, c, state, args, nat) ==
  LET p == exec_promise_id(args)
      t0 == p.trace \o <<Ev("let state = ctx.state.clone()", 0),
                         Ev("borrow", 0), Ev("track_async", c.id),
                         Ev("get_error_class_fn", 0), Ev("drop borrow", 0)>>
      st == exec_decls(code.arg_decls, args,
                       [ok |-> TRUE, env |-> <<>>, trace |-> t0])
      t1 == st.trace
      pre == code.pre_result # "empty"
      cl == exec_call(code, st.env)
      t2 == IF pre THEN t1 \o cl.trace \o cl.drops ELSE t1
      base == [kind |-> "async", args |-> args, trace |-> <<>>,
               invoked |-> <<>>, result |-> Unset,
               rv |-> Unset, stage |-> "aborted", suspensions |-> 0,
               task |-> NoTask]
  IN  IF ~p.ok
      THEN [base EXCEPT !.trace = p.trace]
      ELSE IF ~st.ok
      THEN [base EXCEPT !.trace = st.trace]
      ELSE IF pre /\ cl.panic
      THEN [base EXCEPT !.trace = t2, !.stage = "panicked"]
      ELSE [base EXCEPT
              !.trace = t2 \o <<Ev("queue_async_op", 0)>>,
              !.invoked = IF pre THEN <<cl.bound>> ELSE <<>>,
              !.result = IF pre THEN call(cl.bound, nat) ELSE Unset,
              !.stage = "queued",
              !.task = [promise_id |-> p.v, op_id |-> c.id,
                        get_class |-> state.get_error_class_fn,
                        env |-> st.env,
                        result_fut |-> IF pre THEN call(cl.bound, nat)
                                       ELSE Unset,
                        fut |-> Unset, drops |-> <<>>]]

exec_v8_async(code, c, state, args, nat) ==
  LET p == exec_promise_id(args)
      t0 == p.trace
      st == exec_decls(code.arg_decls, args,
                       [ok |-> TRUE, env |-> <<>>, trace |-> t0])
      t1 == st.trace \o <<Ev("let state = ctx.state.clone()", 0),
                          Ev("borrow", 0), Ev("track_async", c.id),
                          Ev("get_error_class_fn", 0), Ev("drop borrow", 0)>>
      pre == code.pre_result # "empty"
      cl == exec_call(code, st.env)
      t2 == IF pre THEN t1 \o cl.trace \o cl.drops ELSE t1
      base == [kind |-> "async", args |-> args, trace |-> <<>>,
               invoked |-> <<>>, result |-> Unset,
               rv |-> Unset, stage |-> "aborted", suspensions |-> 0,
               task |-> NoTask]
  IN  IF ~p.ok
      THEN [base EXCEPT !.trace = t0]
      ELSE IF ~st.ok
      THEN [base EXCEPT !.trace = st.trace]
      ELSE IF pre /\ cl.panic
      THEN [base EXCEPT !.trace = t2, !.stage = "panicked"]
      ELSE [base EXCEPT
              !.trace = t2 \o <<Ev("queue_async_op", 0)>>,
              !.invoked = IF pre THEN <<cl.bound>> ELSE <<>>,
              !.result = IF pre THEN call(cl.bound, nat) ELSE Unset,
              !.stage = "queued",
              !.task = [promise_id |-> p.v, op_id |-> c.id,
                        get_class |-> state.get_error_class_fn,
                        env |-> st.env,
                        result_fut |-> IF pre THEN call(cl.bound, nat)
                                       ELSE Unset,
                        fut |-> Unset, drops |-> <<>>]]

\* block_start without the early return of line 193: an outer Err is
\* awaited like a future
block_start_no_early_return(code, task) ==
  IF code.result_fut = "call.await"
  THEN LET cl == exec_call(code, task.env)
       IN  [trace |-> cl.trace,
            invoked |-> IF cl.panic THEN <<>> ELSE <<cl.bound>>,
            fut |-> call(cl.bound, "Plain"), early |-> FALSE,
            drops |-> cl.drops, panic |-> cl.panic]
  ELSE [trace |-> <<>>, invoked |-> <<>>, fut |-> task.result_fut,
        early |-> FALSE, drops |-> <<>>, panic |-> FALSE]

\* the async block from its start to its await, or to its early return
block_start(code, task) ==
  IF code.result_fut = "call.await"
  THEN LET cl == exec_call(code, task.env)
       IN  [trace |-> cl.trace,
            invoked |-> IF cl.panic THEN <<>> ELSE <<cl.bound>>,
            fut |-> call(cl.bound, "Plain"), early |-> FALSE,
            drops |-> cl.drops, panic |-> cl.panic]
  ELSE IF code.result_fut = "result_fut.await"
  THEN [trace |-> <<>>, invoked |-> <<>>, fut |-> task.result_fut,
        early |-> FALSE, drops |-> <<>>, panic |-> FALSE]
  ELSE [trace |-> <<>>, invoked |-> <<>>, fut |-> task.result_fut,
        early |-> task.result_fut.tag = "Err", drops |-> <<>>,
        panic |-> FALSE]

\* block_finish with the first two components of the triple exchanged
block_finish_swapped(code, task, fut, out) ==
  LET output == [tag |-> out,
                 val |-> [fn |-> "await", tag |-> out, of |-> fut.val]]
      result == IF code.result_wrapper = "Ok(result)"
                THEN [tag |-> "Ok", val |-> output.val]
                ELSE output
  IN  [promise_id |-> task.op_id, op_id |-> task.promise_id,
       result |-> to_op_result(task.get_class, result)]

\* block_finish reading the classifier off the shared state when the
\* future completes
block_finish_late_class(code, task, fut, out) ==
  LET output == [tag |-> out,
                 val |-> [fn |-> "await", tag |-> out, of |-> fut.val]]
      result == IF code.result_wrapper = "Ok(result)"
                THEN [tag |-> "Ok", val |-> output.val]
                ELSE output
  IN  [promise_id |-> task.promise_id, op_id |-> task.op_id,
       result |-> to_op_result(op_state.get_error_class_fn, result)]

\* block_finish taking the promise id of the call made last instead of
\* the one moved into the task
block_finish_last_promise(code, task, fut, out) ==
  LET output == [tag |-> out,
                 val |-> [fn |-> "await", tag |-> out, of |-> fut.val]]
      result == IF code.result_wrapper = "Ok(result)"
                THEN [tag |-> "Ok", val |-> output.val]
                ELSE output
  IN  [promise_id |-> calls[Len(calls)].task.promise_id,
       op_id |-> task.op_id,
       result |-> to_op_result(task.get_class, result)]

\* the async block from the completion of its await to its value
block_finish(code, task, fut, out) ==
  LET output == [tag |-> out,
                 val |-> [fn |-> "await", tag |-> out, of |-> fut.val]]
      result == IF code.result_wrapper = "Ok(result)"
                THEN [tag |-> "Ok", val |-> output.val]
                ELSE output
  IN  [promise_id |-> task.promise_id, op_id |-> task.op_id,
       result |-> to_op_result(task.get_class, result)]

\* the value of the async block on the early return of line 193
block_return(task) ==
  [promise_id |-> task.promise_id, op_id |-> task.op_id,
   result |-> to_op_result(task.get_class, task.result_fut)]

\* the event of an awaited future that completes with out
Ready(out) ==
  IF out = "Ok" THEN "Ready: Ok"
  ELSE IF out = "Err" THEN "Ready: Err"
  ELSE "Ready"

\* one poll of a queued or suspended task; out is what the awaited future
\* yields at this poll
poll_task(code, cr, out) ==
  LET first == cr.stage = "queued"
      bs == block_start(code, cr.task)
      t0 == cr.trace \o <<Ev("poll", 0)>> \o (IF first THEN bs.trace ELSE <<>>)
      inv == cr.invoked \o (IF first THEN bs.invoked ELSE <<>>)
      fut == IF first THEN bs.fut ELSE cr.task.fut
      drops == IF first THEN bs.drops ELSE cr.task.drops
  IN  IF first /\ bs.panic
      THEN [call |-> [cr EXCEPT !.trace = t0 \o drops,
                                !.stage = "panicked"],
            delivered |-> <<>>]
      ELSE IF first /\ bs.early
      THEN [call |-> [cr EXCEPT !.trace = t0 \o <<Ev("deliver", 0)>>,
                                !.stage = "settled"],
            delivered |-> <<block_return(cr.task)>>]
      ELSE IF out = "Pending"
      THEN [call |-> [cr EXCEPT !.trace = t0 \o <<Ev("Pending", 0)>>,
                                !.invoked = inv,
                                !.stage = "suspended",
                                !.suspensions = @ + 1,
                                !.task.fut = fut,
                                !.task.drops = drops],
            delivered |-> <<>>]
      ELSE [call |-> [cr EXCEPT !.trace = t0 \o <<Ev(Ready(out), 0)>> \o drops
                                           \o <<Ev("deliver", 0)>>,
                                !.invoked = inv,
                                !.stage = "settled"],
            delivered |-> <<block_finish(code, cr.task, fut, out)>>]

----------------------------------------------------------------------------
(* The annotated functions and the host's calls *)

ParamKinds ==
  { [pat |-> "state", ty |-> <<"&", "mut", "OpState">>],
    [pat |-> "state", ty |-> <<"Rc", "<", "RefCell", "<", "OpState", ">", ">">>],
    [pat |-> "scope", ty |-> <<"&", "mut", "v8", "::", "HandleScope">>],
    [pat |-> "a", ty |-> <<"u32">>],
    [pat |-> "_", ty |-> <<"u32">>] }

ParamLists == UNION {[1..n -> ParamKinds] : n \in 0..MaxParams}

SyncOutputs ==
  { <<>>,
    <<"->", "u32">>,
    <<"->", "Result", "<", "u32", ",", "E", ">">>,
    <<"->", "Result", "<", "()", ",", "E", ">">> }

FutureOutputs ==
  { <<"->", "impl", "Future", "<", "Output", "=", "u32", ">">>,
    <<"->", "Result", "<", "impl", "Future", "<", "Output", "=",
      "Result", "<", "u32", ",", "E", ">", ">", ",", "E", ">">> }

Functions ==
  [ident : {"op_add"}, asyncness : {FALSE}, inputs : ParamLists,
   output : SyncOutputs \cup FutureOutputs]
  \cup [ident : {"op_add"}, asyncness : {TRUE}, inputs : ParamLists,
        output : SyncOutputs]

\* the annotations #[op] and #[op(v8)]
Attrs == {<<>>, <<"v8">>}

OpIds == {7}

ClassFns == {"get_error_class_a", "get_error_class_b"}

\* the promise ids a host passes, one of them beyond the range of an i32
PromiseArgs == {Undefined, JsInt(1), JsUint(2147483647)}

\* The dynamic arguments a host passes in n slots (one per declared
\* parameter, and the promise id): a slot is left out (and read as
\* undefined) or holds an integer that names the slot; slot 0 of an
\* asynchronous call holds pid.
ArgVector(n, present, is_async, pid) ==
  [j \in 1..n |->
     IF is_async /\ j = 1 THEN pid
     ELSE IF j \in present THEN JsInt(10 + (j - 1))
     ELSE Undefined]

Init ==
  /\ attr \in Attrs
  /\ f \in Functions
  /\ margs = MacroArgs_parse(attr).v
  /\ v8_body = op_v8_body(f, margs)
  /\ ctx \in [id : OpIds]
  /\ op_state = [get_error_class_fn |-> "get_error_class_a",
                 tracker |-> [sync |-> 0, async |-> 0]]
  /\ host_calls = 1
  /\ calls = <<>>
  /\ completions = <<>>

RECURSIVE Count(_, _)
Count(trace, e) ==
  IF trace = <<>> THEN 0
  ELSE (IF Head(trace).ev = e THEN 1 ELSE 0) + Count(Tail(trace), e)

----------------------------------------------------------------------------
(* Actions *)

\* the host calls v8_func of a synchronous op
CallSync ==
  /\ ~v8_body.is_async
  /\ host_calls > 0
  /\ host_calls' = host_calls - 1
  /\ LET code == v8_body.code
         n == Len(f.inputs)
     IN  \E present \in SUBSET (1..n),
            nat \in (IF code.ret.kind = "match" THEN {"Ok", "Err"}
                     ELSE {"Plain"}),
            enc \in BOOLEAN :
           LET args == ArgVector(n, present, FALSE, Undefined)
               cr == exec_v8_sync(code, ctx, op_state, args, nat, enc)
           IN  /\ calls' = Append(calls, cr)
               /\ op_state' = [op_state EXCEPT !.tracker.sync =
                                 @ + Count(cr.trace, "track_sync")]
  /\ UNCHANGED <<attr, f, margs, v8_body, ctx, completions>>

\* the host calls v8_func of an asynchronous op
CallAsync ==
  /\ v8_body.is_async
  /\ host_calls > 0
  /\ host_calls' = host_calls - 1
  /\ LET code == v8_body.code
         n == 1 + Len(f.inputs)
     IN  \E present \in SUBSET (2..n), pid \in PromiseArgs,
            nat \in (IF code.result_wrapper = "match fut.await"
                     THEN {"Ok", "Err"} ELSE {"Plain"}) :
           LET args == ArgVector(n, present, TRUE, pid)
               cr == exec_v8_async(code, ctx, op_state, args, nat)
           IN  /\ calls' = Append(calls, cr)
               /\ op_state' = [op_state EXCEPT !.tracker.async =
                                 @ + Count(cr.trace, "track_async")]
  /\ UNCHANGED <<attr, f, margs, v8_body, ctx, completions>>

\* the scheduler polls a task handed to queue_async_op
Poll ==
  /\ \E i \in 1..Len(calls),
        out \in {"Pending", "Plain", "Ok", "Err"} :
       LET code == v8_body.code
           r == poll_task(code, calls[i], out)
       IN  /\ calls[i].stage \in {"queued", "suspended"}
           /\ out = "Pending" => calls[i].suspensions < MaxSuspend
           /\ out # "Pending" =>
                (out = "Plain") = (code.result_wrapper = "Ok(result)")
           /\ calls' = [calls EXCEPT ![i] = r.call]
           /\ completions' = completions \o
                [j \in 1..Len(r.delivered) |->
                   [promise_id |-> r.delivered[j].promise_id,
                    op_id |-> r.delivered[j].op_id,
                    result |-> r.delivered[j].result,
                    cid |-> i]]
  /\ UNCHANGED <<attr, f, margs, v8_body, ctx, op_state, host_calls>>

\* a suspended task holds the exclusive borrow of the shared state: the
\* temporary of its call statement lives until the await completes
BorrowHeld ==
  \E i \in 1..Len(calls) :
    calls[i].stage = "suspended" /\ calls[i].task.drops # <<>>

\* the embedder replaces the error classifier of the shared state, as long
\* as a call or a poll may still read it; it needs the state unborrowed
SetErrorClassFn ==
  /\ \/ host_calls > 0
     \/ \E i \in 1..Len(calls) : calls[i].stage \in {"queued", "suspended"}
  /\ ~BorrowHeld
  /\ \E g \in ClassFns \ {op_state.get_error_class_fn} :
       op_state' = [op_state EXCEPT !.get_error_class_fn = g]
  /\ UNCHANGED <<attr, f, margs, v8_body, ctx, host_calls, calls, completions>>

Next == CallSync \/ CallAsync \/ Poll \/ SetErrorClassFn

Spec == Init /\ [][Next]_vars

----------------------------------------------------------------------------
(* Macro expansion on its own (lib.rs 73-151): the attribute is applied to a
   function drawn from a wider set of signatures, and no call is made. *)

\* parameter shapes that differ from the special ones by a lifetime or by a
\* missing mut
MoreParamKinds ==
  { [pat |-> "scope", ty |-> <<"&", "mut", "v8", "::", "HandleScope",
                              "<", "'a", ">">>],
    [pat |-> "state", ty |-> <<"&", "OpState">>] }

MoreOutputs ==
  { <<"->", "io", "::", "Result", "<", "()", ">">>,
    <<"->", "()">>,
    <<"->", "Option", "<", "io", "::", "Result", "<", "()", ">", ">">>,
    <<"->", "Result", "<", "MyResult", "<", "()", ">", ",", "E", ">">>,
    <<"->", "Result", "<", "Vec", "<", "Result", "<", "()", ",", "E", ">",
      ">", ",", "E", ">">>,
    <<"->", "impl", "std", "::", "future", "::", "Future", "<", "Output",
      "=", "u32", ">">> }

\* function names, one of them the name the preserved function is given
Idents == {"op_add", "call"}

MacroParamLists ==
  UNION {[1..n -> ParamKinds \cup MoreParamKinds] : n \in 0..MaxMacroParams}

MacroFunctions ==
  [ident : Idents, asyncness : {FALSE}, inputs : MacroParamLists,
   output : SyncOutputs \cup MoreOutputs \cup FutureOutputs]
  \cup [ident : Idents, asyncness : {TRUE}, inputs : MacroParamLists,
        output : SyncOutputs \cup MoreOutputs]

\* the well-formed annotations: every set of options, in one order
MacroAttrs ==
  {<<>>, <<"v8">>, <<"unstable">>, <<"unstable", ",", "v8">>}

MacroInit ==
  /\ attr \in MacroAttrs
  /\ f \in MacroFunctions
  /\ margs = Unparsed
  /\ v8_body = Unset
  /\ ctx \in [id : OpIds]
  /\ op_state = [get_error_class_fn |-> "get_error_class_a",
                 tracker |-> [sync |-> 0, async |-> 0]]
  /\ host_calls = 0
  /\ calls = <<>>
  /\ completions = <<>>

\* the attribute macro parses its options and generates the trampoline of
\* f, or fails with a compile error
op ==
  /\ v8_body = Unset
  /\ LET r == MacroArgs_parse(attr)
     IN  IF r.ok
         THEN /\ margs' = r.v
              /\ v8_body' = op_v8_body(f, r.v)
         ELSE /\ margs' = margs
              /\ v8_body' = [compile_error |-> r.err]
  /\ UNCHANGED <<attr, f, ctx, op_state, host_calls, calls, completions>>

MacroSpec == MacroInit /\ [][op]_vars

----------------------------------------------------------------------------
(* Parsing of the annotation on its own: the attribute is any sequence of at
   most MaxAttr tokens, on one function. *)

AttrTokens == {"unstable", "v8", "foo", ",", "1"}

AttrLists == UNION {[1..n -> AttrTokens] : n \in 0..MaxAttr}

ParseInit ==
  /\ attr \in AttrLists
  /\ f = [ident |-> "op_add", asyncness |-> FALSE, inputs |-> <<>>,
          output |-> <<>>]
  /\ margs = Unparsed
  /\ v8_body = Unset
  /\ ctx \in [id : OpIds]
  /\ op_state = [get_error_class_fn |-> "get_error_class_a",
                 tracker |-> [sync |-> 0, async |-> 0]]
  /\ host_calls = 0
  /\ calls = <<>>
  /\ completions = <<>>

ParseSpec == ParseInit /\ [][op]_vars

----------------------------------------------------------------------------
(* Vocabulary of the properties *)

\* the macro has run and has generated a trampoline
Generated == v8_body # Unset /\ "code" \in DOMAIN v8_body

CallIds == 1..Len(calls)

ThrowEvents ==
  { "throw: Error parsing args at position", "throw: invalid promise id",
    "throw: Error serializing return" }

\* the positions in a trace of the events named e
At(trace, e) == {j \in 1..Len(trace) : trace[j].ev = e}

Throws(trace) == {j \in 1..Len(trace) : trace[j].ev \in ThrowEvents}

Min(S) == CHOOSE x \in S : \A y \in S : x <= y

Max(S) == CHOOSE x \in S : \A y \in S : x >= y

\* the parameters past the special prefix, the dynamic index the k-th of
\* them (from 0) stands for, and whether it is Serialized
PrefixLen == Len(v8_body.code.args_head)

Rest == SubSeq(f.inputs, PrefixLen + 1, Len(f.inputs))

Offset == IF v8_body.is_async THEN 1 ELSE 0

DynPos(k) == k + Offset

Serialized(k) == Rest[k + 1].pat # "_"

PromiseOk(cr) == args_get(cr.args, 0).k = "int"

\* the dynamic positions of the Serialized parameters whose argument does
\* not decode
Failing(cr) ==
  {DynPos(k) : k \in {k \in 0..(Len(Rest) - 1) :
                        /\ Serialized(k)
                        /\ args_get(cr.args, DynPos(k)).k # "int"}}

Delivered(c) == {j \in 1..Len(completions) : completions[j].cid = c}

----------------------------------------------------------------------------
\* C1: in the synchronous and in the asynchronous trampoline, when the
\* dynamic argument at position i is the lowest-indexed one that fails to
\* decode (the promise id being valid), exactly one type error is raised and
\* its message names position i, the native function is not invoked, no
\* argument past i is read, nothing is handed to the scheduler and nothing
\* is delivered.
C1_DecodeFailureAborts ==
  \A c \in CallIds :
    LET cr == calls[c]
        bad == Failing(cr)
    IN  (bad # {} /\ (cr.kind = "async" => PromiseOk(cr))) =>
          /\ Cardinality(Throws(cr.trace)) = 1
          /\ \A j \in Throws(cr.trace) :
               cr.trace[j] = Ev("throw: Error parsing args at position",
                                Min(bad))
          /\ cr.invoked = <<>>
          /\ At(cr.trace, "call") = {}
          /\ \A j \in At(cr.trace, "args.get") : cr.trace[j].n <= Min(bad)
          /\ At(cr.trace, "queue_async_op") = {}
          /\ cr.stage = "aborted"
          /\ Delivered(c) = {}

\* an asynchronous call with a valid promise id in which two arguments fail
\* to decode
C1_Witness ==
  \E c \in CallIds :
    /\ calls[c].kind = "async"
    /\ PromiseOk(calls[c])
    /\ Cardinality(Failing(calls[c])) >= 2
    /\ Throws(calls[c].trace) # {}

----------------------------------------------------------------------------
\* C2: in the asynchronous trampoline, when dynamic argument 0 is absent or
\* is not an integer, the call reads argument 0, raises the type error
\* "invalid promise id" and does nothing else: no other argument is read or
\* decoded, no asynchronous call is tracked, the native function is not
\* invoked, nothing is handed to the scheduler and no triple is delivered.
C2_InvalidPromiseIdAborts ==
  \A c \in CallIds :
    LET cr == calls[c]
    IN  (cr.kind = "async" /\ ~PromiseOk(cr)) =>
          /\ cr.trace = <<Ev("args.get", 0), Ev("Integer::try_from", 0),
                          Ev("throw: invalid promise id", -1)>>
          /\ cr.invoked = <<>>
          /\ cr.stage = "aborted"
          /\ op_state.tracker.async = 0
          /\ Delivered(c) = {}

\* an asynchronous call without a promise id whose other arguments are all
\* present and valid
C2_Witness ==
  \E c \in CallIds :
    /\ calls[c].kind = "async"
    /\ ~PromiseOk(calls[c])
    /\ Len(calls[c].args) >= 2
    /\ Failing(calls[c]) = {}
    /\ Throws(calls[c].trace) # {}

----------------------------------------------------------------------------
----------------------------------------------------------------------------
\* The scheduler polls every task handed to it until it resolves.  The
\* liveness of a call does not depend on how many parameters the function
\* has past the first, so the fair specification draws the functions of at
\* most one parameter.
FairInit == Init /\ Len(f.inputs) <= 1

FairSpec == FairInit /\ [][Next]_vars /\ WF_vars(Poll)

PrologueOk(cr) == cr.kind = "async" /\ PromiseOk(cr) /\ Failing(cr) = {}

C4_Safety ==
  \A c \in CallIds :
    LET cr == calls[c]
    IN  /\ Cardinality(Delivered(c)) <= 1
        /\ ~PrologueOk(cr) => Delivered(c) = {}
        /\ \A j \in Delivered(c) :
             /\ completions[j].promise_id = as_PromiseId(args_get(cr.args, 0))
             /\ completions[j].op_id = ctx.id
             /\ At(cr.trace, "queue_async_op") # {}
             /\ Max(At(cr.trace, "deliver"))
                  > Min(At(cr.trace, "queue_async_op"))
             /\ At(cr.trace, "Ready: Err") # {} =>
                  /\ completions[j].result.tag = "Err"
                  /\ completions[j].result.val.class_name = cr.task.get_class
                  /\ Min(At(cr.trace, "Ready: Err"))
                       > Min(At(cr.trace, "queue_async_op"))
             /\ At(cr.trace, "Ready: Ok") # {} =>
                  completions[j].result.tag = "Ok"

----------------------------------------------------------------------------
\* C5 as claimed: on a fully successful call the trampoline reads as many
\* dynamic arguments as there are Serialized and Ignored parameters (and one
\* more, the promise id, in the asynchronous case).
C5_ReadsSerializedAndIgnored ==
  \A c \in CallIds :
    calls[c].stage # "aborted" =>
      Cardinality(At(calls[c].trace, "args.get")) = Len(Rest) + Offset

\* C5 as amended: on a fully successful call the trampoline reads exactly
\* the dynamic arguments of the Serialized parameters, each once at its own
\* index (and the promise id at index 0 in the asynchronous case); an Ignored
\* parameter keeps its index but is never read.
C5_ReadsSerializedOnly ==
  \A c \in CallIds :
    LET cr == calls[c]
        ser == {k \in 0..(Len(Rest) - 1) : Serialized(k)}
    IN  cr.stage # "aborted" =>
          /\ Cardinality(At(cr.trace, "args.get"))
               = Cardinality(ser) + Offset
          /\ {cr.trace[j].n : j \in At(cr.trace, "args.get")}
               = {DynPos(k) : k \in ser}
                 \cup (IF v8_body.is_async THEN {0} ELSE {})

\* a successful call of a function whose first parameter past the prefix is
\* Ignored and whose next one is Serialized
C5_Witness ==
  \E c \in CallIds :
    /\ calls[c].stage # "aborted"
    /\ Len(Rest) >= 2
    /\ ~Serialized(0)
    /\ Serialized(1)

----------------------------------------------------------------------------
\* the value a special-shaped parameter is bound to
ExpectedSpecial(a) ==
  IF margs.is_v8 /\ is_handle_scope(a) THEN [k |-> "scope", n |-> 0]
  ELSE IF is_rc_refcell_opstate(a)
  THEN [k |-> "Rc<RefCell<OpState>>", n |-> 0]
  ELSE [k |-> "&mut OpState", n |-> 0]

\* the native value the dynamic argument at position i decodes to
Decoded(cr, i) == from_v8(args_get(cr.args, i)).v

\* C6: with a special prefix of length p, the native function is invoked
\* with one value per declared parameter, in declared order: the special
\* bindings first, then for the k-th parameter past the prefix (Ignored ones
\* counted) the decoded dynamic argument k (synchronous) or k + 1
\* (asynchronous), or the empty value if it is Ignored.  So a synchronous
\* function with only Serialized parameters and a plain return value writes
\* to the return slot the encoding of the original function applied to the
\* decoded arguments 0..N-1.
C6_PositionalBinding ==
  \A c \in CallIds :
    LET cr == calls[c]
    IN  /\ \A m \in 1..Len(cr.invoked) :
             LET b == cr.invoked[m]
             IN  /\ Len(b) = Len(f.inputs)
                 /\ \A j \in 1..PrefixLen : b[j] = ExpectedSpecial(f.inputs[j])
                 /\ \A k \in 0..(Len(Rest) - 1) :
                      b[PrefixLen + 1 + k]
                        = IF Serialized(k) THEN Decoded(cr, DynPos(k))
                          ELSE Unit
        /\ ( /\ cr.kind = "sync"
             /\ cr.stage = "returned"
             /\ PrefixLen = 0
             /\ \A k \in 0..(Len(Rest) - 1) : Serialized(k)
             /\ ~is_void(f.output) /\ ~is_result(f.output)
             /\ Throws(cr.trace) = {} ) =>
             cr.rv = to_v8(call([k \in 1..Len(f.inputs) |->
                                   Decoded(cr, k - 1)], "Plain").val)

\* a function with a special first parameter and a Serialized second one has
\* been invoked
C6_Witness ==
  \E c \in CallIds :
    /\ calls[c].invoked # <<>>
    /\ PrefixLen = 1
    /\ Len(Rest) = 1
    /\ Serialized(0)

----------------------------------------------------------------------------
\* a parameter shaped like a special one, under the annotation's options
Shaped(a) ==
  \/ is_rc_refcell_opstate(a)
  \/ is_mut_ref_opstate(a)
  \/ (margs.is_v8 /\ is_handle_scope(a))

\* C7: in the generated trampoline the parameters bound as special are
\* exactly the longest leading run of special-shaped parameters; every
\* parameter after it is Serialized or Ignored by its pattern alone, whatever
\* its shape; an execution-scope shape is special only under the v8 option,
\* so without it no parameter is bound to the execution scope and such a
\* parameter ends the prefix.
C7_SpecialPrefix ==
  Generated =>
    LET head == v8_body.code.args_head
        decls == v8_body.code.arg_decls
        p == Len(head)
        n == Len(f.inputs)
    IN  /\ p <= n
        /\ \A j \in 1..p :
             /\ Shaped(f.inputs[j])
             /\ (head[j] = "scope")
                  = (margs.is_v8 /\ is_handle_scope(f.inputs[j]))
        /\ p < n => ~Shaped(f.inputs[p + 1])
        /\ Len(decls) = n - p
        /\ \A j \in 1..Len(decls) :
             decls[j].stmt = IF f.inputs[p + j].pat = "_" THEN "let_unit"
                             ELSE "from_v8"
        /\ ~margs.is_v8 =>
             /\ \A q \in 1..n : is_handle_scope(f.inputs[q]) => p < q
             /\ \A j \in 1..p : head[j] # "scope"

\* without the v8 option, the trampoline has been generated for a function
\* whose first parameter is shaped like an execution scope and whose second
\* is the shared state: both are decoded from dynamic arguments
C7_Witness ==
  /\ Generated
  /\ ~margs.is_v8
  /\ Len(f.inputs) = 2
  /\ is_handle_scope(f.inputs[1])
  /\ is_mut_ref_opstate(f.inputs[2])
  /\ v8_body.code.args_head = <<>>
  /\ Len(v8_body.code.arg_decls) = 2

----------------------------------------------------------------------------
\* C8: a synchronous call of a function classified UnitResult that returns
\* Ok encodes nothing and leaves the return slot unwritten; one that returns
\* Err(e) encodes exactly once, the structured error made of e, and writes
\* it to the return slot.
C8_UnitResultEncoding ==
  \A c \in CallIds :
    LET cr == calls[c]
    IN  ( /\ cr.kind = "sync"
          /\ cr.stage = "returned"
          /\ is_unit_result(f.output) ) =>
          /\ cr.result.tag = "Ok" =>
               /\ At(cr.trace, "to_v8") = {}
               /\ At(cr.trace, "rv.set") = {}
               /\ cr.rv = Unset
          /\ cr.result.tag = "Err" =>
               /\ Cardinality(At(cr.trace, "to_v8")) = 1
               /\ Cardinality(At(cr.trace, "rv.set")) = 1
               /\ cr.rv.k = "v8"
               /\ cr.rv.of.message = cr.result.val
               /\ cr.rv.of.class_name \in ClassFns

\* a synchronous function returning Result<(), E> has returned Ok(())
C8_Witness ==
  \E c \in CallIds :
    /\ calls[c].kind = "sync"
    /\ calls[c].stage = "returned"
    /\ f.output = <<"->", "Result", "<", "()", ",", "E", ">">>
    /\ calls[c].result.tag = "Ok"

----------------------------------------------------------------------------
\* the return shape the generated return code stands for
RetShape(ret) ==
  IF ret.kind = "empty" THEN "Void"
  ELSE IF ret.kind = "ok_block" THEN "PlainValue"
  ELSE IF ret.ok_block = "empty" THEN "UnitResult"
  ELSE "ValueResult"

\* a path: identifiers separated by ::
IsPath(toks) ==
  \A j \in 1..Len(toks) : (toks[j] = "::") = (j % 2 = 0)

\* the position of the Result of a type that is Result<...> or a
\* path-qualified Result<...>, 0 for any other type
ResultAt(ty) ==
  IF \E k \in 1..(Len(ty) - 1) :
       /\ ty[k] = "Result" /\ ty[k + 1] = "<"
       /\ k % 2 = 1
       /\ IsPath(SubSeq(ty, 1, k))
  THEN CHOOSE k \in 1..(Len(ty) - 1) :
         /\ ty[k] = "Result" /\ ty[k + 1] = "<"
         /\ k % 2 = 1
         /\ IsPath(SubSeq(ty, 1, k))
  ELSE 0

\* the classification the claim states, read off the declared type
ClaimedShape(output) ==
  LET ty == IF output = <<>> THEN <<>> ELSE Tail(output)
      k == ResultAt(ty)
  IN  IF output = <<>> THEN "Void"
      ELSE IF k = 0 THEN "PlainValue"
      ELSE IF ty[k + 2] = "()" /\ ty[k + 3] \in {",", ">"} THEN "UnitResult"
      ELSE "ValueResult"

\* C9 as claimed: the return type is classified Void iff it is empty;
\* otherwise, if it is a result type (directly or path-qualified), UnitResult
\* iff its success payload is the empty value and ValueResult otherwise, also
\* when the payload contains a unit-result type; otherwise PlainValue.
C9_ReturnClassification ==
  (Generated /\ ~v8_body.is_async) =>
    RetShape(v8_body.code.ret) = ClaimedShape(f.output)

----------------------------------------------------------------------------
DecodeEvents == {"args.get", "from_v8", "Integer::try_from"}

BindEvents ==
  { "arg: scope", "arg: ctx.state.clone()",
    "arg: &mut ctx.state.borrow_mut()" }

Among(trace, evs) == {j \in 1..Len(trace) : trace[j].ev \in evs}

----------------------------------------------------------------------------
\* a structured error object: what OpError::new makes
IsOpError(x) == DOMAIN x = {"class_name", "message"}

\* the native function, or the future it returned, resulted in Err
NativeErr(cr) ==
  \/ (cr.result # Unset /\ cr.result.tag = "Err")
  \/ At(cr.trace, "Ready: Err") # {}

\* C11: a native Err result raises no type error and does not abort the
\* call: it is written to the return slot as a structured error object
\* (synchronous) or delivered in the completion triple as one
\* (asynchronous).  A call that raises a type error (argument decoding,
\* promise id, result serialization) makes no structured error object,
\* writes nothing to the return slot and delivers nothing.
C11_ErrorChannelsApart ==
  \A c \in CallIds :
    LET cr == calls[c]
    IN  /\ NativeErr(cr) =>
             /\ Throws(cr.trace) = {}
             /\ cr.stage \in {"returned", "queued", "settled"}
             /\ cr.kind = "sync" =>
                  /\ Cardinality(At(cr.trace, "rv.set")) = 1
                  /\ cr.rv.k = "v8"
                  /\ IsOpError(cr.rv.of)
                  /\ cr.rv.of.message = cr.result.val
             /\ (cr.kind = "async" /\ cr.stage = "settled") =>
                  /\ Cardinality(Delivered(c)) = 1
                  /\ \A j \in Delivered(c) :
                       /\ completions[j].result.tag = "Err"
                       /\ IsOpError(completions[j].result.val)
        /\ Throws(cr.trace) # {} =>
             /\ ~NativeErr(cr)
             /\ At(cr.trace, "OpError::new") = {}
             /\ cr.rv = Unset
             /\ Delivered(c) = {}
             /\ cr.stage \in {"aborted", "returned"}

\* a declared-async function has resolved to Err and its triple has been
\* delivered
C11_Witness ==
  \E c \in CallIds :
    /\ f.asyncness
    /\ calls[c].stage = "settled"
    /\ At(calls[c].trace, "Ready: Err") # {}
    /\ \E j \in Delivered(c) : IsOpError(completions[j].result.val)

----------------------------------------------------------------------------
\* the return type contains an anonymous future type: impl, then a path to
\* Future, then its arguments
AnonymousFuture(output) ==
  \E i \in 1..Len(output) : \E j \in (i + 1)..(Len(output) - 1) :
    /\ output[i] = "impl"
    /\ output[j] = "Future"
    /\ output[j + 1] = "<"
    /\ IsPath(SubSeq(output, i + 1, j))

\* C12: the async verdict is true iff the function is declared async or its
\* return type contains an anonymous future type; the asynchronous
\* trampoline is generated iff the verdict is true, else the synchronous
\* one; the emitted descriptor has is_async equal to the verdict,
\* is_unstable and is_v8 equal to the annotation's options, the function's
\* identifier as its name and enabled true.
C12_AsyncVerdictAndDecl ==
  Generated =>
    LET verdict == f.asyncness \/ AnonymousFuture(f.output)
    IN  /\ v8_body.is_async = verdict
        /\ ("result_wrapper" \in DOMAIN v8_body.code) = verdict
        /\ ("ret" \in DOMAIN v8_body.code) = ~verdict
        /\ v8_body.decl = [name |-> f.ident,
                           enabled |-> TRUE,
                           is_async |-> verdict,
                           is_unstable |-> margs.is_unstable,
                           is_v8 |-> margs.is_v8]

----------------------------------------------------------------------------
\* the attribute is a list of options: identifiers separated by commas,
\* with or without a trailing comma
OptionList ==
  \A j \in 1..Len(attr) :
    IF j % 2 = 1 THEN IsIdent(attr[j]) ELSE attr[j] = ","

Options == {attr[j] : j \in {j \in 1..Len(attr) : j % 2 = 1}}

\* C13: parsing the annotation's option list succeeds iff every option is
\* unstable or v8 (the empty list included); then is_unstable is true iff
\* unstable occurs and is_v8 is true iff v8 occurs, whatever the order and
\* the repetitions; any other token yields a generation-time error and no
\* options value.
C13_OptionParsing ==
  v8_body # Unset =>
    LET accepted == OptionList /\ Options \subseteq {"unstable", "v8"}
    IN  /\ Generated = accepted
        /\ accepted => margs = [is_unstable |-> "unstable" \in Options,
                                is_v8 |-> "v8" \in Options]
        /\ ~accepted =>
             /\ margs = Unparsed
             /\ "compile_error" \in DOMAIN v8_body

\* the options v8, unstable in that order have been parsed
C13_Witness ==
  /\ Generated
  /\ attr = <<"v8", ",", "unstable">>
  /\ margs.is_unstable /\ margs.is_v8

----------------------------------------------------------------------------
\* C14: no call of an asynchronous trampoline writes the return slot,
\* whether it aborts in the prologue, is scheduled, or has settled (with Ok,
\* with Err, or with the outer Err of a fallible future), and no call of the
\* synchronous trampoline of a Void function writes it; a settled
\* asynchronous call has handed its result over in one completion triple.
C14_ReturnSlotUnwritten ==
  \A c \in CallIds :
    LET cr == calls[c]
    IN  /\ (cr.kind = "async" \/ is_void(f.output)) =>
             /\ cr.rv = Unset
             /\ At(cr.trace, "rv.set") = {}
             /\ At(cr.trace, "to_v8") = {}
        /\ (cr.kind = "async" /\ cr.stage = "settled") =>
             Cardinality(Delivered(c)) = 1

\* a function returning a plain future has settled and its triple has been
\* delivered, the return slot still unwritten
C14_Witness ==
  \E c \in CallIds :
    /\ calls[c].kind = "async"
    /\ calls[c].stage = "settled"
    /\ At(calls[c].trace, "Ready") # {}
    /\ calls[c].rv = Unset
    /\ \E j \in Delivered(c) : completions[j].result.tag = "Ok"

----------------------------------------------------------------------------
TrackEvents == {"track_sync", "track_async"}

EncodeEvents ==
  {"to_v8", "rv.set", "OpError::new", "throw: Error serializing return"}

\* C15: a call updates the tracker at most once, and not at all when it
\* aborts on the promise id or on an argument; a synchronous call that has
\* invoked the native function records one synchronous call, after the
\* invocation and before any result encoding; an asynchronous call whose
\* promise id and arguments decode records one asynchronous call, after the
\* last argument is decoded and before the native function is invoked and
\* before anything is scheduled.  The tracker counts what the calls
\* recorded.
C15_TrackedOncePastPrologue ==
  /\ op_state.tracker.sync
       = Cardinality({c \in CallIds : At(calls[c].trace, "track_sync") # {}})
  /\ op_state.tracker.async
       = Cardinality({c \in CallIds : At(calls[c].trace, "track_async") # {}})
  /\ \A c \in CallIds :
       LET cr == calls[c]
           tr == cr.trace
           tracked == Among(tr, TrackEvents)
       IN  /\ Cardinality(tracked) <= 1
           /\ cr.stage = "aborted" => tracked = {}
           /\ cr.invoked # <<>> => Cardinality(tracked) = 1
           /\ (cr.kind = "sync" /\ cr.stage = "returned") =>
                /\ tracked = At(tr, "track_sync")
                /\ \A j \in tracked :
                     /\ \A i \in At(tr, "call") : i < j
                     /\ \A i \in Among(tr, EncodeEvents) : j < i
           /\ PrologueOk(cr) =>
                /\ Cardinality(tracked) = 1
                /\ tracked = At(tr, "track_async")
                /\ \A j \in tracked :
                     /\ \A i \in Among(tr, DecodeEvents) : i < j
                     /\ \A i \in At(tr, "call") : j < i
                     /\ \A i \in At(tr, "queue_async_op") : j < i

\* a synchronous call has decoded an argument, invoked the function and
\* encoded its result
C15_Witness ==
  \E c \in CallIds :
    /\ calls[c].kind = "sync"
    /\ calls[c].stage = "returned"
    /\ At(calls[c].trace, "from_v8") # {}
    /\ At(calls[c].trace, "track_sync") # {}
    /\ At(calls[c].trace, "rv.set") # {}

----------------------------------------------------------------------------
\* C16, one step: an asynchronous call that gets past its prologue keeps,
\* as its snapshot, the classifier the shared state holds when the call is
\* made; no later step changes the snapshot; and a structured error that a
\* step delivers carries the snapshot of its call, whatever classifier the
\* shared state holds by then.
C16_Step ==
  /\ Len(calls') > Len(calls) =>
       LET cr == calls'[Len(calls')]
       IN  (cr.kind = "async" /\ cr.stage = "queued") =>
             cr.task.get_class = op_state.get_error_class_fn
  /\ \A i \in 1..Len(calls) :
       calls[i].stage \in {"queued", "suspended"} =>
         calls'[i].task.get_class = calls[i].task.get_class
  /\ \A j \in (Len(completions) + 1)..Len(completions') :
       LET t == completions'[j]
       IN  t.result.tag = "Err" =>
             /\ IsOpError(t.result.val)
             /\ t.result.val.class_name = calls[t.cid].task.get_class

\* C16: in the asynchronous trampoline the classifier used to encode the
\* settled result, and the outer Err of a fallible future, is the one the
\* shared state held at the time of the prologue, also when the shared
\* state's classifier is replaced between the prologue and the settlement.
C16_ClassifierSnapshot == [][C16_Step]_vars

\* a structured error has been delivered whose class is no longer the one
\* the shared state holds: the classifier was replaced while the call was
\* in flight
C16_Witness ==
  \E j \in 1..Len(completions) :
    /\ completions[j].result.tag = "Err"
    /\ completions[j].result.val.class_name # op_state.get_error_class_fn

----------------------------------------------------------------------------
\* Two calls of one asynchronous op.  The host makes both before or between
\* the polls of the scheduler, which picks any task that has not settled.
\* The functions are those the design permits: a declared-async function
\* that takes the shared state by exclusive borrow keeps the borrow across
\* its suspension and is left out.
HoldsAcrossAwait(fn) ==
  fn.asyncness /\ \E k \in 1..Len(fn.inputs) : is_mut_ref_opstate(fn.inputs[k])

ConcInit ==
  /\ attr = <<>>
  /\ f \in {fn \in Functions : /\ Len(fn.inputs) <= 1
                               /\ op_is_async(fn)
                               /\ ~HoldsAcrossAwait(fn)}
  /\ margs = MacroArgs_parse(attr).v
  /\ v8_body = op_v8_body(f, margs)
  /\ ctx \in [id : OpIds]
  /\ op_state = [get_error_class_fn |-> "get_error_class_a",
                 tracker |-> [sync |-> 0, async |-> 0]]
  /\ host_calls = 2
  /\ calls = <<>>
  /\ completions = <<>>

ConcSpec == ConcInit /\ [][CallAsync \/ Poll \/ SetErrorClassFn]_vars

\* the promise id a call passes
OwnId(c) == as_PromiseId(args_get(calls[c].args, 0))

\* the outcome of the computation of call c, as its own trace records it
OwnOutcome(c) ==
  IF At(calls[c].trace, "Ready: Err") # {} THEN "Err"
  ELSE IF calls[c].result # Unset /\ calls[c].result.tag = "Err" THEN "Err"
  ELSE "Ok"

\* C17: when two asynchronous calls with distinct promise ids have both
\* passed their prologue, then under every interleaving of the polls each
\* call delivers at most one triple, exactly one once it has settled, and
\* the triple carries the promise id, the op id and the outcome of its own
\* call, never the promise id of the other call.
C17_CompletionsOfOwnCall ==
  \A c, d \in CallIds :
    (/\ c # d
     /\ PrologueOk(calls[c]) /\ PrologueOk(calls[d])
     /\ OwnId(c) # OwnId(d)) =>
      /\ Cardinality(Delivered(c)) <= 1
      /\ calls[c].stage = "settled" <=> Cardinality(Delivered(c)) = 1
      /\ \A j \in Delivered(c) :
           /\ completions[j].promise_id = OwnId(c)
           /\ completions[j].promise_id # OwnId(d)
           /\ completions[j].op_id = ctx.id
           /\ completions[j].result.tag = OwnOutcome(c)
           /\ completions[j].result.tag = "Err" =>
                completions[j].result.val.class_name = calls[c].task.get_class

\* the second call resolves first, with the other outcome than the first
\* call, which was polled before it and suspended
C17_Witness ==
  /\ Len(calls) = 2 /\ Len(completions) = 2
  /\ PrologueOk(calls[1]) /\ PrologueOk(calls[2])
  /\ OwnId(1) # OwnId(2)
  /\ completions[1].cid = 2 /\ completions[2].cid = 1
  /\ completions[1].result.tag # completions[2].result.tag
  /\ At(calls[1].trace, "Pending") # {}

\* the calls resolve in the order in which they were made
C17_WitnessInOrder ==
  /\ Len(calls) = 2 /\ Len(completions) = 2
  /\ OwnId(1) # OwnId(2)
  /\ completions[1].cid = 1 /\ completions[2].cid = 2

----------------------------------------------------------------------------
\* the positions of the special-shaped parameters of f
SpecialShaped == {j \in 1..Len(f.inputs) : Shaped(f.inputs[j])}

\* C18 as claimed: for a function with more than one shared-state or
\* execution-scope parameter only the first is bound from ambient context,
\* every later one is decoded from a dynamic argument, also when it
\* directly follows the first.
C18_OnlyFirstBound ==
  (Generated /\ Cardinality(SpecialShaped) > 1) =>
    \A j \in SpecialShaped \ {Min(SpecialShaped)} :
      /\ j > PrefixLen
      /\ v8_body.code.arg_decls[j - PrefixLen].stmt
           = (IF f.inputs[j].pat = "_" THEN "let_unit" ELSE "from_v8")

\* C18 amended: for a function with more than one shared-state or
\* execution-scope parameter, every such parameter of the leading run of
\* special-shaped parameters is bound from ambient context, so a second one
\* that directly follows the first is bound too; one that comes after a
\* parameter of another shape is Serialized or Ignored by its pattern and
\* (if Serialized) decoded from the dynamic argument of its position past
\* the prefix.
C18_LeadingRunBound ==
  (Generated /\ Cardinality(SpecialShaped) > 1) =>
    \A j \in SpecialShaped :
      IF \A q \in 1..j : q \in SpecialShaped
      THEN /\ j <= PrefixLen
           /\ v8_body.code.args_head[j] =
                (IF margs.is_v8 /\ is_handle_scope(f.inputs[j])
                 THEN "scope"
                 ELSE IF is_rc_refcell_opstate(f.inputs[j])
                 THEN "ctx.state.clone()"
                 ELSE "&mut ctx.state.borrow_mut()")
      ELSE /\ j > PrefixLen
           /\ LET d == v8_body.code.arg_decls[j - PrefixLen]
              IN  IF f.inputs[j].pat = "_" THEN d.stmt = "let_unit"
                  ELSE /\ d.stmt = "from_v8"
                       /\ d.idx = (j - PrefixLen - 1) + Offset

\* the trampoline of a function whose two parameters are both shaped like
\* the shared state binds both from the op context and declares no decoded
\* argument
C18_Witness ==
  /\ Generated
  /\ Len(f.inputs) = 2
  /\ is_mut_ref_opstate(f.inputs[1])
  /\ is_rc_refcell_opstate(f.inputs[2])
  /\ v8_body.code.args_head
       = <<"&mut ctx.state.borrow_mut()", "ctx.state.clone()">>
  /\ v8_body.code.arg_decls = <<>>

\* a third parameter shaped like the shared state follows a Serialized one:
\* it is decoded from the dynamic argument 1
C18_WitnessApart ==
  /\ Generated
  /\ ~v8_body.is_async
  /\ Len(f.inputs) = 3
  /\ SpecialShaped = {1, 3}
  /\ f.inputs[3].pat # "_"
  /\ PrefixLen = 1
  /\ v8_body.code.arg_decls[2].stmt = "from_v8"
  /\ v8_body.code.arg_decls[2].idx = 1

----------------------------------------------------------------------------
\* the borrows of the shared state that are open after the event at
\* position i of a trace
Acquire == {"borrow", "arg: &mut ctx.state.borrow_mut()"}

Release == {"drop borrow", "drop borrow_mut"}

Held(tr, i) ==
  Cardinality({k \in 1..i : tr[k].ev \in Acquire})
    - Cardinality({k \in 1..i : tr[k].ev \in Release})

\* the events of binding the parameters and of the invocation itself
CallStatement ==
  {"arg: scope", "arg: ctx.state.clone()",
   "arg: &mut ctx.state.borrow_mut()", "call"}

\* C19: the trampoline never holds, and never asks for, two overlapping
\* borrows of the shared state.  In the synchronous path the exclusive
\* borrow of a SharedStateExclusive parameter spans only the invocation and
\* is released before the tracker's shared borrow is taken; in the
\* asynchronous path the shared borrow that records the call and reads the
\* classifier is released before the function is invoked and before the
\* computation is scheduled; and no borrow is open when a function bound
\* with a SharedStateShared handle is invoked.
C19_NoOverlappingBorrows ==
  \A c \in CallIds :
    LET cr == calls[c]
        tr == cr.trace
    IN  /\ At(tr, "panic: already borrowed") = {}
        /\ \A i \in 1..Len(tr) : Held(tr, i) <= 1
        /\ cr.kind = "sync" =>
             /\ \A i \in At(tr, "drop borrow_mut"), j \in At(tr, "borrow") :
                  i < j
             /\ \A i \in At(tr, "arg: &mut ctx.state.borrow_mut()") :
                  \E j \in At(tr, "drop borrow_mut") :
                    /\ i < j
                    /\ \A k \in (i + 1)..(j - 1) : tr[k].ev \in CallStatement
        /\ cr.kind = "async" =>
             \A i \in At(tr, "borrow") :
               \E j \in At(tr, "drop borrow") :
                 /\ i < j
                 /\ \A k \in At(tr, "call") \cup At(tr, "queue_async_op") :
                      j < k
        /\ At(tr, "arg: ctx.state.clone()") # {} =>
             \A j \in At(tr, "call") : Held(tr, j) = 0

====
